---- MODULE Spec2Model ----
(***************************************************************************)
(* Model of the matching engine of the audio recognition system:           *)
(*   return_matches / align_matches of collect_fingerprints_of_songs.py    *)
(*   ("ingest"), recognize_from_file.py ("file") and                       *)
(*   recognize_from_microphone.py ("mic"), fingerprint_song, the two       *)
(*   recognition drivers, grouper and the SQLite adapter they use.         *)
(*                                                                         *)
(* A channel is represented by the hash sequence fingerprint.fingerprint   *)
(* yields for it: a sequence of <<token, offset>> pairs.  A token is the   *)
(* record [case |-> "lower", n |-> i]: the i-th distinct hexdigest prefix, *)
(* in lower case as hexdigest() gives it; upper() sets the case field.     *)
(***************************************************************************)
EXTENDS Integers, Sequences, FiniteSets, Bags, TLC

VARIABLES songs, fingerprints, impl, caller, pc, audio, check_signature,
          matches, pos, diff_counter, largest, largest_count, song_id,
          result

vars == <<songs, fingerprints, impl, caller, pc, audio, check_signature,
          matches, pos, diff_counter, largest, largest_count, song_id,
          result>>

dbVars == <<songs, fingerprints>>
voterVars == <<diff_counter, largest, largest_count, song_id>>

(***************************************************************************)
(* Program constants                                                       *)
(***************************************************************************)
DupThreshold == 1000
BatchSize == 1000

(***************************************************************************)
(* Bounds of the model                                                     *)
(***************************************************************************)
MaxObs == 3
MaxShuffled == 4
MaxSid == 2
MaxDiff == 1
MaxTok == 2
MaxOffset == 1
MaxHashes == 2
MaxChannels == 1
MaxSongs == 2
MaxRows == 2

\* Python's None; rows and dicts are records, so None is one as well
None == [none |-> TRUE]
Impls == {"ingest", "file", "mic"}

(***************************************************************************)
(* Generic helpers                                                         *)
(***************************************************************************)
EmptyDict == [x \in {} |-> 0]

SetMax(S) == CHOOSE m \in S : \A x \in S : x <= m

SeqsUpTo(S, n) == UNION {[1..k -> S] : k \in 0..n}

\* dict.setdefault(k, v): d itself when k is a key, else d with k -> v added
SetDefault(d, k, v) ==
  IF k \in DOMAIN d THEN d
  ELSE [x \in DOMAIN d \cup {k} |-> IF x = k THEN v ELSE d[x]]

(***************************************************************************)
(* The songs table and get_song_by_id                                      *)
(***************************************************************************)
SongRow(id, name, filehash, tags) ==
  [id |-> id, name |-> name, filehash |-> filehash, tags |-> tags]

\* SELECT * FROM songs WHERE id = ? ; fetchone() gives None without a row
get_song_by_id(tbl, id) ==
  IF \E s \in tbl : s.id = id
  THEN CHOOSE s \in tbl : s.id = id
  ELSE None

(***************************************************************************)
(* align_matches: one pass of the loop body, shared by the three voters.   *)
(* tup = <<sid, diff>>.  The ingestion voter has no variable for the       *)
(* winning offset: its "largest" stays at the initial 0.                   *)
(***************************************************************************)
VoterInit ==
  [diff_counter |-> EmptyDict, largest |-> 0, largest_count |-> 0,
   song_id |-> -1]

\* CountUp without the "if diff not in diff_counter" test
CountUpReset(dc, diff, sid) ==
  LET d1 == [x \in DOMAIN dc \cup {diff} |->
               IF x = diff THEN EmptyDict ELSE dc[x]]
      d2 == [d1 EXCEPT ![diff] = SetDefault(d1[diff], sid, 0)]
  IN  [d2 EXCEPT ![diff][sid] = @ + 1]

CountUp(dc, diff, sid) ==
  LET d1 == SetDefault(dc, diff, EmptyDict)
      d2 == [d1 EXCEPT ![diff] = SetDefault(d1[diff], sid, 0)]
  IN  [d2 EXCEPT ![diff][sid] = @ + 1]

\* ">=" in place of ">"
ExceedsOrEquals(count, best) == count >= best

Exceeds(count, best) == count > best

\* VoteStep without the comparison: the cell voted for last is tracked
VoteStepLast(im, st, tup) ==
  LET sid == tup[1]
      diff == tup[2]
      dc == CountUp(st.diff_counter, diff, sid)
  IN  [diff_counter |-> dc,
       largest |-> IF im = "ingest" THEN st.largest ELSE diff,
       largest_count |-> dc[diff][sid],
       song_id |-> sid]

VoteStep(im, st, tup) ==
  LET sid == tup[1]
      diff == tup[2]
      dc == CountUp(st.diff_counter, diff, sid)
  IN  IF Exceeds(dc[diff][sid], st.largest_count)
      THEN [diff_counter |-> dc,
            largest |-> IF im = "ingest" THEN st.largest ELSE diff,
            largest_count |-> dc[diff][sid],
            song_id |-> sid]
      ELSE [st EXCEPT !.diff_counter = dc]

\* the state of the loop after the whole sequence
RECURSIVE AlignFold(_, _, _)
AlignFold(im, st, seq) ==
  IF seq = <<>> THEN st
  ELSE AlignFold(im, VoteStep(im, st, Head(seq)), Tail(seq))

\* ">" in place of ">="
IsDuplicateStrict(count) == count > DupThreshold

\* if largest_count >= 1000
IsDuplicate(count) == count >= DupThreshold

\* what align_matches returns (or raises) once the loop has ended
AlignReturnValue(im, st, tbl) ==
  LET song == get_song_by_id(tbl, st.song_id)
  IN  CASE im = "file" ->
             IF song = None
             THEN [kind |-> "raise", error |-> "TypeError"]
             ELSE [kind |-> "verdict", SONG_ID |-> st.song_id,
                   SONG_NAME |-> song.name,
                   CONFIDENCE |-> st.largest_count,
                   OFFSET |-> st.largest]
        [] im = "mic" ->
             [kind |-> "verdict", SONG_ID |-> st.song_id,
              SONG_NAME |-> IF song = None THEN "Unknown" ELSE song.name,
              CONFIDENCE |-> st.largest_count,
              OFFSET |-> st.largest]
        [] im = "ingest" ->
             IF IsDuplicate(st.largest_count)
             THEN [kind |-> "pair", song |-> song,
                   confidence |-> st.largest_count]
             ELSE [kind |-> "pair", song |-> None, confidence |-> 0]

VoterState ==
  [diff_counter |-> diff_counter, largest |-> largest,
   largest_count |-> largest_count, song_id |-> song_id]

(***************************************************************************)
(* Actions of a direct call align_matches(matches, db)                     *)
(***************************************************************************)
AlignStep ==
  /\ pc = "align"
  /\ pos < Len(matches)
  /\ LET st == VoteStep(impl, VoterState, matches[pos + 1])
     IN  /\ diff_counter' = st.diff_counter
         /\ largest' = st.largest
         /\ largest_count' = st.largest_count
         /\ song_id' = st.song_id
  /\ pos' = pos + 1
  /\ UNCHANGED <<dbVars, impl, caller, pc, audio, check_signature, matches,
                 result>>

AlignReturn ==
  /\ pc = "align"
  /\ caller = "call"
  /\ pos = Len(matches)
  /\ result' = AlignReturnValue(impl, VoterState, songs)
  /\ pc' = IF result'.kind = "raise" THEN "failed" ELSE "done"
  /\ UNCHANGED <<dbVars, impl, caller, audio, check_signature, matches, pos,
                 voterVars>>

(***************************************************************************)
(* Hash tokens and stored offsets                                          *)
(***************************************************************************)
Tok(n) == [case |-> "lower", n |-> n]

\* str.upper() and SQL upper()
Upper(t) == [t EXCEPT !.case = "upper"]

\* int.to_bytes(8, "little") of an offset below 2^32: what sqlite3 stores
\* for a numpy.int64 parameter (bound through the buffer protocol)
ToBytes(n) ==
  <<n % 256, (n \div 256) % 256, (n \div 65536) % 256,
    (n \div 16777216) % 256, 0, 0, 0, 0>>

RECURSIVE LittleEndian(_, _)
LittleEndian(b, i) ==
  IF i > Len(b) THEN 0 ELSE b[i] + 256 * LittleEndian(b, i + 1)

\* int.from_bytes(b, byteorder="little")
FromBytes(b) == LittleEndian(b, 1)

Blob(b) == [type |-> "bytes", bytes |-> b]
Integer(n) == [type |-> "int", int |-> n]

\* the value bound for an offset that fingerprint() produced
BindOffset(o) == Blob(ToBytes(o))

FingerprintRow(sid, h, stored) ==
  [song_fk |-> sid, hash |-> h, offset |-> stored]

\* int.from_bytes(...) if isinstance(db_offset, bytes) else int(db_offset)
DecodeOffset(stored) ==
  IF stored.type = "bytes" THEN FromBytes(stored.bytes) ELSE stored.int

(***************************************************************************)
(* return_matches                                                          *)
(***************************************************************************)
\* a dict keeps its keys in the order of their first insertion
EmptyMapper == [keys |-> <<>>, val |-> EmptyDict]

\* d[k] = v
DictSet(d, k, v) ==
  IF k \in DOMAIN d.val
  THEN [d EXCEPT !.val[k] = v]
  ELSE [keys |-> Append(d.keys, k), val |-> SetDefault(d.val, k, v)]

\* DictUpdate in which a key that d has keeps the value of d
DictUpdateKeepFirst(d, e) ==
  [keys |-> d.keys \o SelectSeq(e.keys, LAMBDA k : k \notin DOMAIN d.val),
   val |-> [k \in DOMAIN d.val \cup DOMAIN e.val |->
              IF k \in DOMAIN d.val THEN d.val[k] ELSE e.val[k]]]

\* the writes of e applied to d, in the order of e's keys
DictUpdate(d, e) ==
  [keys |-> d.keys \o SelectSeq(e.keys, LAMBDA k : k \notin DOMAIN d.val),
   val |-> [k \in DOMAIN d.val \cup DOMAIN e.val |->
              IF k \in DOMAIN e.val THEN e.val[k] ELSE d.val[k]]]

\* mapper = {str(hash_val).upper(): offset for hash_val, offset in hashes}:
\* the writes hashes[lo..hi] in sequence order, evaluated in two halves
RECURSIVE BuildMapper(_, _, _)
BuildMapper(hashes, lo, hi) ==
  IF lo > hi THEN EmptyMapper
  ELSE IF lo = hi
       THEN DictSet(EmptyMapper, Upper(hashes[lo][1]), hashes[lo][2])
       ELSE LET mid == (lo + hi) \div 2
            IN  DictUpdate(BuildMapper(hashes, lo, mid),
                           BuildMapper(hashes, mid + 1, hi))

Mapper(hashes) == BuildMapper(hashes, 1, Len(hashes))

\* truth value of a batch member: None (the fill value) is falsy, a hash
\* string is not
Truthy(v) == v # None

\* grouper(iterable, n): zip_longest over n references to one iterator gives
\* tuples of n values, the last one filled with None; each goes through
\* filter(None, ...)
NumGroups(values, n) == (Len(values) + n - 1) \div n

\* the g-th tuple of zip_longest: the values taken from the iterator and the
\* number of None fill values after them
ZipLongest(values, n, g) ==
  LET first == (g - 1) * n + 1
      last == IF g * n <= Len(values) THEN g * n ELSE Len(values)
  IN  [taken |-> SubSeq(values, first, last), filled |-> g * n - last]

\* filter(None, tuple): the truthy members of the tuple, fill values included
FilterNone(tuple) ==
  SelectSeq(tuple.taken, Truthy)
    \o (IF Truthy(None) THEN [i \in 1..tuple.filled |-> None] ELSE <<>>)

\* grouper with zip in place of zip_longest: an incomplete last tuple is
\* dropped
grouperZip(values, n) ==
  [g \in 1..(Len(values) \div n) |-> FilterNone(ZipLongest(values, n, g))]

grouper(values, n) ==
  [g \in 1..NumGroups(values, n) |-> FilterNone(ZipLongest(values, n, g))]

\* whether split_values is a list where len(split_values) is taken: the
\* ingestion and the file matcher call list() on the filter object first
HasLen(im) == im \in {"ingest", "file"}

\* execute_all of "SELECT upper(hash), song_fk, offset FROM fingerprints
\* WHERE upper(hash) IN (...)": the matching rows in rowid order
execute_all_lookup(store, split_values) ==
  LET wanted == {split_values[i] : i \in 1..Len(split_values)}
      hit == SelectSeq(store, LAMBDA r : Upper(r.hash) \in wanted)
  IN  [i \in 1..Len(hit) |->
         <<Upper(hit[i].hash), hit[i].song_fk, hit[i].offset>>]

\* whether the matcher can subtract from the offset of a returned row: the
\* microphone matcher uses the stored value as it is
RowRaises(im, row) == im = "mic" /\ row[3].type = "bytes"

\* the tuple yielded for one returned row
Observation(im, mapper, row) ==
  <<row[2],
    (IF im = "mic" THEN row[3].int ELSE DecodeOffset(row[3]))
      - mapper.val[row[1]]>>

RECURSIVE Flatten(_, _)
Flatten(seqs, i) ==
  IF i > Len(seqs) THEN <<>> ELSE seqs[i] \o Flatten(seqs, i + 1)

Raise(e) == [kind |-> "raise", error |-> e]
Yielded(obs) == [kind |-> "ok", matches |-> obs]

\* return_matches(hashes, db) consumed to its end, with lookup batches of n
ReturnMatches(im, hashes, store, n) ==
  LET mapper == Mapper(hashes)
      groups == grouper(mapper.keys, n)
      rows == [g \in 1..Len(groups) |-> execute_all_lookup(store, groups[g])]
  IN  IF groups = <<>> THEN Yielded(<<>>)
      ELSE IF ~HasLen(im) THEN Raise("TypeError")
      ELSE IF \E g \in 1..Len(rows) : \E i \in 1..Len(rows[g]) :
                RowRaises(im, rows[g][i])
      THEN Raise("TypeError")
      ELSE Yielded(Flatten(
             [g \in 1..Len(rows) |->
                [i \in 1..Len(rows[g]) |->
                   Observation(im, mapper, rows[g][i])]], 1))

\* matches.extend(find_matches(channel, ...)) for every channel in turn
FindAllMatches(im, channels, store, n) ==
  LET per == [c \in 1..Len(channels) |->
                ReturnMatches(im, channels[c], store, n)]
  IN  IF \E c \in 1..Len(per) : per[c].kind = "raise"
      THEN Raise("TypeError")
      ELSE Yielded(Flatten([c \in 1..Len(per) |-> per[c].matches], 1))

(***************************************************************************)
(* Specification of the voter as a function: the observation sequence and  *)
(* the songs table are drawn from bounded sets.                            *)
(***************************************************************************)
Sids == 1..MaxSid
Diffs == 0..MaxDiff
Observations == Sids \X Diffs

NoTags == [f \in {} |-> None]
\* the songs table after k songs were added (ids are never reused and no
\* row is deleted): empty, or with a row for every song id
SongTable(k) ==
  {SongRow(i, <<"song", i>>, <<"filehash", i>>, NoTags) : i \in 1..k}

SongTables == {SongTable(0), SongTable(MaxSid)}

\* n votes for song 1 at offset delta 0 and one vote for song 2, which comes
\* first or last
GateStream(n, first) ==
  [i \in 1..(n + 1) |->
     IF (first /\ i = 1) \/ (~first /\ i = n + 1)
     THEN <<2, 1>> ELSE <<1, 0>>]

VoterCall(im, obs, tbl) ==
  /\ songs = tbl
  /\ fingerprints = <<>>
  /\ impl = im
  /\ caller = "call"
  /\ pc = "align"
  /\ audio = None
  /\ check_signature = "none"
  /\ matches = obs
  /\ pos = 0
  /\ diff_counter = VoterInit.diff_counter
  /\ largest = VoterInit.largest
  /\ largest_count = VoterInit.largest_count
  /\ song_id = VoterInit.song_id
  /\ result = None

InitVoterShort ==
  \E im \in Impls, obs \in SeqsUpTo(Observations, MaxObs),
     tbl \in SongTables :
    VoterCall(im, obs, tbl)

InitVoterLong ==
  \E n \in {DupThreshold - 1, DupThreshold}, first \in BOOLEAN,
     tbl \in SongTables :
    VoterCall("ingest", GateStream(n, first), tbl)

InitVoter == InitVoterShort \/ InitVoterLong

NextVoter == AlignStep \/ AlignReturn

SpecVoter == InitVoter /\ [][NextVoter]_vars

SpecPerm == InitVoterShort /\ [][NextVoter]_vars

(***************************************************************************)
(* The SQLite adapter                                                      *)
(***************************************************************************)
TagFields == {"title", "artist", "album", "genre", "duration", "track"}

\* the row with the lowest rowid among those a SELECT without ORDER BY
\* matches, None when there is none (fetchone)
FirstRow(rows) ==
  IF rows = {} THEN None
  ELSE CHOOSE s \in rows : \A o \in rows : s.id <= o.id

\* get_song_by_filehash that compares the name column
get_song_by_filehashName(tbl, filehash) ==
  FirstRow({s \in tbl : s.name = filehash})

get_song_by_filehash(tbl, filehash) ==
  FirstRow({s \in tbl : s.filehash = filehash})

\* round(duration, 1) of a duration given in hundredths of a second
Round1(d) ==
  LET q == d \div 10
      r == d % 10
  IN  10 * (IF r > 5 \/ (r = 5 /\ q % 2 = 1) THEN q + 1 ELSE q)

\* the value get_song_by_tags and add_song compare or store for a field
TagValue(f, v) ==
  IF f = "duration" /\ v # None THEN [v |-> Round1(v.v)] ELSE v

\* get_song_by_tags that finds no song
get_song_by_tagsNone(tbl, tags) == None

get_song_by_tags(tbl, tags) ==
  LET criteria == {f \in TagFields : tags[f] # None}
  IN  IF criteria = {} THEN None
      ELSE FirstRow({s \in tbl :
                       \A f \in criteria : s.tags[f] = TagValue(f, tags[f])})

\* ids that start at 0
NextSongIdFromZero(tbl) == Cardinality(tbl)

\* INSERT INTO songs: AUTOINCREMENT gives the next id of a table from which
\* no row is ever deleted
NextSongId(tbl) == Cardinality(tbl) + 1

\* add_song: the id it returns and the songs table it leaves;
\* round(None, 1) raises TypeError when the duration tag is None
add_song(tbl, filename, filehash, tags) ==
  LET byHash == get_song_by_filehash(tbl, filehash)
      byTags == get_song_by_tags(tbl, tags)
  IN  IF byHash # None THEN [kind |-> "ok", id |-> byHash.id, songs |-> tbl]
      ELSE IF byTags # None
      THEN [kind |-> "ok", id |-> byTags.id, songs |-> tbl]
      ELSE IF tags["duration"] = None THEN Raise("TypeError")
      ELSE [kind |-> "ok", id |-> NextSongId(tbl),
            songs |-> tbl \cup
              {SongRow(NextSongId(tbl), filename, filehash,
                       [f \in TagFields |-> TagValue(f, tags[f])])}]

\* store_fingerprints that writes the table anew
store_fingerprintsAnew(store, values) ==
  [i \in 1..Len(values) |->
     FingerprintRow(values[i][1], values[i][2], BindOffset(values[i][3]))]

\* store_fingerprints(values): the table has no unique key, so every
\* INSERT OR IGNORE of every batch adds a row
store_fingerprints(store, values) ==
  store \o Flatten(grouper(
             [i \in 1..Len(values) |->
                FingerprintRow(values[i][1], values[i][2],
                               BindOffset(values[i][3]))],
             BatchSize), 1)

(***************************************************************************)
(* fingerprint_song                                                        *)
(***************************************************************************)
AllChannelHashes(a) ==
  UNION {{a.channels[c][i] : i \in 1..Len(a.channels[c])} :
           c \in 1..Len(a.channels)}

\* the hashes of all channels in the order of their first occurrence
FirstOccurrences(a) ==
  LET all == Flatten(a.channels, 1)
      firsts == {i \in 1..Len(all) : \A j \in 1..(i - 1) : all[j] # all[i]}
      marked == [i \in 1..Len(all) |-> <<i \in firsts, all[i]>>]
      kept == SelectSeq(marked, LAMBDA m : m[1])
  IN  [i \in 1..Len(kept) |-> kept[i][2]]

\* the orders in which iterating the set all_channel_hashes can give its
\* elements: every order; for a set of more than MaxShuffled elements the
\* model follows the order of first occurrence only
SetOrders(a) ==
  LET S == AllChannelHashes(a)
  IN  IF Cardinality(S) > MaxShuffled THEN {FirstOccurrences(a)}
      ELSE {q \in [1..Cardinality(S) -> S] :
              \A i, j \in DOMAIN q : i # j => q[i] # q[j]}

\* lines 158-172: add the song and store its fingerprints
AddAndStore(a, order) ==
  LET added == add_song(songs, a.songname, a.file_hash, a.metadata)
  IN  IF added.kind = "raise"
      THEN /\ pc' = "failed"
           /\ result' = added
           /\ UNCHANGED dbVars
      ELSE /\ pc' = "done"
           /\ result' = [kind |-> "stored", id |-> added.id]
           /\ songs' = added.songs
           /\ fingerprints' =
                store_fingerprints(fingerprints,
                  [i \in 1..Len(order) |->
                     <<added.id, order[i][1], order[i][2]>>])

ResetVoter ==
  /\ pos' = 0
  /\ diff_counter' = VoterInit.diff_counter
  /\ largest' = VoterInit.largest
  /\ largest_count' = VoterInit.largest_count
  /\ song_id' = VoterInit.song_id

\* fingerprint_song up to the loop of align_matches (all of it when the file
\* is skipped by file hash or tags, or when the signature check is off)
FingerprintSongStart(a, chk) ==
  /\ pc = "idle"
  /\ impl' = "ingest"
  /\ caller' = "fingerprint_song"
  /\ audio' = a
  /\ check_signature' = chk
  /\ ResetVoter
  /\ IF get_song_by_filehash(songs, a.file_hash) # None
     THEN /\ pc' = "done"
          /\ result' = [kind |-> "skipped", why |-> "file_hash"]
          /\ matches' = <<>>
          /\ UNCHANGED dbVars
     ELSE IF a.metadata["title"] # None
             /\ get_song_by_tags(songs, a.metadata) # None
     THEN /\ pc' = "done"
          /\ result' = [kind |-> "skipped", why |-> "metadata"]
          /\ matches' = <<>>
          /\ UNCHANGED dbVars
     ELSE IF chk = "Yes"
     THEN /\ pc' = "align"
          /\ result' = None
          /\ matches' =
               FindAllMatches("ingest", a.channels, fingerprints,
                              BatchSize).matches
          /\ UNCHANGED dbVars
     ELSE /\ matches' = <<>>
          /\ \E order \in SetOrders(a) :
               AddAndStore(a, order)

\* align_matches returns to fingerprint_song, lines 148-172
FingerprintSongFinish ==
  /\ pc = "align"
  /\ caller = "fingerprint_song"
  /\ pos = Len(matches)
  /\ LET r == AlignReturnValue("ingest", VoterState, songs)
     IN  IF r.song # None
         THEN /\ pc' = "done"
              /\ result' = [kind |-> "skipped", why |-> "duplicate",
                            of |-> r.song.id, confidence |-> r.confidence]
              /\ UNCHANGED dbVars
         ELSE \E order \in SetOrders(audio) :
                AddAndStore(audio, order)
  /\ UNCHANGED <<impl, caller, audio, check_signature, matches, pos,
                 voterVars>>

(***************************************************************************)
(* The recognition drivers: __main__ of recognize_from_file.py and         *)
(* process_microphone_recording                                            *)
(***************************************************************************)
Recognize(im, clip) ==
  /\ pc = "idle"
  /\ impl' = im
  /\ caller' = "recognize"
  /\ audio' = clip
  /\ check_signature' = "none"
  /\ ResetVoter
  /\ LET found == FindAllMatches(im, clip.channels, fingerprints, BatchSize)
     IN  IF found.kind = "raise"
         THEN /\ pc' = "failed"
              /\ result' = found
              /\ matches' = <<>>
         ELSE IF Len(found.matches) > 0
         THEN /\ pc' = "align"
              /\ result' = None
              /\ matches' = found.matches
         ELSE /\ pc' = "done"
              /\ result' = [kind |-> "no_matches"]
              /\ matches' = <<>>
  /\ UNCHANGED dbVars

\* align_matches returns to the driver, which prints the verdict
RecognizeReport ==
  /\ pc = "align"
  /\ caller = "recognize"
  /\ pos = Len(matches)
  /\ result' = AlignReturnValue(impl, VoterState, songs)
  /\ pc' = IF result'.kind = "raise" THEN "failed" ELSE "done"
  /\ UNCHANGED <<dbVars, impl, caller, audio, check_signature, matches, pos,
                 voterVars>>

\* the process ends; the next command starts on the database as it is
Exit ==
  /\ pc \in {"done", "failed"}
  /\ caller # "call"
  /\ pc' = "idle"
  /\ impl' = "none"
  /\ caller' = "none"
  /\ audio' = None
  /\ check_signature' = "none"
  /\ matches' = <<>>
  /\ result' = None
  /\ ResetVoter
  /\ UNCHANGED dbVars

(***************************************************************************)
(* Bounded inputs of the programs                                          *)
(***************************************************************************)

Hashes == {Tok(n) : n \in 1..MaxTok} \X (0..MaxOffset)

\* generate_hashes yields its pairs in non-decreasing order of the offset
ChannelHashes(n) ==
  {h \in SeqsUpTo(Hashes, n) :
     \A i \in 1..(Len(h) - 1) : h[i][2] <= h[i + 1][2]}

\* the channels of a clip: at most MaxHashes hashes together
ClipChannels ==
  {ch \in UNION {[1..k -> ChannelHashes(MaxHashes)] : k \in 1..MaxChannels} :
     Len(Flatten(ch, 1)) <= MaxHashes}

\* a tag that the file has; a tag it does not have is None
Some(x) == [v |-> x]

Tags(title, artist, duration) ==
  [f \in TagFields |->
     CASE f = "title" -> title
       [] f = "artist" -> artist
       [] f = "duration" -> duration
       [] OTHER -> None]

Title(i) == Some(<<"title", i>>)

Metadata ==
  {Tags(Title(1), Some("artist"), Some(1234)),
   Tags(None, Some("artist"), Some(1234))}

AudioFile(songname, file_hash, metadata, channels) ==
  [songname |-> songname, file_hash |-> file_hash, metadata |-> metadata,
   channels |-> channels]

AudioFiles ==
  {AudioFile(<<"song", fh>>, <<"filehash", fh>>, md, ch) :
     fh \in 1..MaxSongs, md \in Metadata, ch \in ClipChannels}

Clips ==
  {AudioFile("clip", "clip", Tags(None, None, None), ch) : ch \in ClipChannels}

(***************************************************************************)
(* The programs on one database, from the state reset_database leaves      *)
(***************************************************************************)
Init ==
  /\ songs = {}
  /\ fingerprints = <<>>
  /\ impl = "none"
  /\ caller = "none"
  /\ pc = "idle"
  /\ audio = None
  /\ check_signature = "none"
  /\ matches = <<>>
  /\ pos = 0
  /\ diff_counter = VoterInit.diff_counter
  /\ largest = VoterInit.largest
  /\ largest_count = VoterInit.largest_count
  /\ song_id = VoterInit.song_id
  /\ result = None

FingerprintSong ==
  \E a \in AudioFiles, chk \in {"Yes", "No"} :
    /\ Cardinality(songs) < MaxSongs
    /\ Len(fingerprints) + Cardinality(AllChannelHashes(a)) <= MaxRows
    /\ FingerprintSongStart(a, chk)

RecognizeFromFile == \E clip \in Clips : Recognize("file", clip)

RecognizeFromMicrophone == \E clip \in Clips : Recognize("mic", clip)

AlignLoop == caller # "call" /\ AlignStep

Next ==
  \/ FingerprintSong
  \/ FingerprintSongFinish
  \/ RecognizeFromFile
  \/ RecognizeFromMicrophone
  \/ RecognizeReport
  \/ AlignLoop
  \/ Exit

Spec == Init /\ [][Next]_vars

(***************************************************************************)
(* return_matches as a function: the hashes of one channel and the rows of *)
(* the fingerprints table are drawn from bounded sets.  The rows of a table *)
(* hold the offset as the 8 bytes of a numpy.int64 or as an integer.       *)
(***************************************************************************)
\* an offset as the table holds it
Stored(rep, o) == IF rep = "bytes" THEN BindOffset(o) ELSE Integer(o)

\* the query sequences of one call: hash tokens are opaque, so they are
\* numbered in order of first appearance, and the time bins start at 0
QueryHashes ==
  {h \in ChannelHashes(MaxHashes) :
     /\ Len(h) > 0 => h[1][2] = 0
     /\ \A i \in 1..Len(h) :
          h[i][1].n <= 1 + SetMax({0} \cup {h[j][1].n : j \in 1..(i - 1)})}

RowSpecs == Sids \X (1..MaxTok) \X {0, MaxOffset}

\* the stores of up to MaxRows rows: songs are stored one after the other
\* under consecutive ids, each with a set of (hash, offset) pairs
StoreSpecs ==
  {s \in SeqsUpTo(RowSpecs, MaxRows) :
     /\ Len(s) > 0 => s[1][1] = 1
     /\ \A i \in 1..(Len(s) - 1) : s[i + 1][1] \in {s[i][1], s[i][1] + 1}
     /\ \A i, j \in 1..Len(s) : s[i] = s[j] => i = j}

StoreOf(rep, specs) ==
  [i \in 1..Len(specs) |->
     FingerprintRow(specs[i][1], Tok(specs[i][2]), Stored(rep, specs[i][3]))]

InitMatcher ==
  \E im \in Impls, hashes \in QueryHashes,
     rep \in {"bytes", "int"}, specs \in StoreSpecs :
    /\ songs = {}
    /\ fingerprints = StoreOf(rep, specs)
    /\ impl = im
    /\ caller = "call"
    /\ pc = "match"
    /\ audio = AudioFile("clip", "clip", Tags(None, None, None), <<hashes>>)
    /\ check_signature = "none"
    /\ matches = <<>>
    /\ pos = 0
    /\ diff_counter = VoterInit.diff_counter
    /\ largest = VoterInit.largest
    /\ largest_count = VoterInit.largest_count
    /\ song_id = VoterInit.song_id
    /\ result = None

\* list(return_matches(hashes, db))
ReturnMatchesCall ==
  /\ pc = "match"
  /\ caller = "call"
  /\ result' = ReturnMatches(impl, audio.channels[1], fingerprints, BatchSize)
  /\ pc' = IF result'.kind = "raise" THEN "failed" ELSE "done"
  /\ matches' = IF result'.kind = "raise" THEN <<>> ELSE result'.matches
  /\ UNCHANGED <<dbVars, impl, caller, audio, check_signature, pos, voterVars>>

NextMatcher == ReturnMatchesCall

SpecMatcher == InitMatcher /\ [][NextMatcher]_vars

(***************************************************************************)
(* fingerprint_song with the signature check on a library that holds a     *)
(* song of DupThreshold + 1 hashes (id 1) and a song of one hash (id 2):   *)
(* new files of about DupThreshold hashes, a file whose hash is stored and *)
(* a file whose tags are those of song 1                                   *)
(***************************************************************************)
\* the hashes Tok(1)..Tok(m), the i-th at offset i
LongChannel(m) == [i \in 1..m |-> <<Tok(i), i>>]

GateSongs ==
  {SongRow(i, <<"song", i>>, <<"filehash", i>>,
           [f \in TagFields |->
              TagValue(f, Tags(Title(i), Some("artist"), Some(1234))[f])]) :
     i \in 1..2}

GateRows ==
  [i \in 1..(DupThreshold + 1) |-> FingerprintRow(1, Tok(i), BindOffset(i))]

GateOther == <<FingerprintRow(2, Tok(1), BindOffset(3))>>

GateAudioFiles ==
  {AudioFile(<<"song", 3>>, <<"filehash", 3>>,
             Tags(Title(3), Some("artist"), Some(1234)), ch) :
     ch \in {<<LongChannel(m)>> :
               m \in (DupThreshold - 1)..(DupThreshold + 1)}
            \cup {<<LongChannel(DupThreshold \div 2),
                    LongChannel(DupThreshold \div 2 - 1)>>,
                  <<LongChannel(DupThreshold \div 2),
                    LongChannel(DupThreshold \div 2)>>}}
    \cup {AudioFile(<<"song", 4>>, <<"filehash", 1>>,
                    Tags(Title(4), Some("artist"), Some(1234)),
                    <<LongChannel(1)>>),
          AudioFile(<<"song", 5>>, <<"filehash", 5>>,
                    Tags(Title(1), Some("artist"), Some(1234)),
                    <<LongChannel(1)>>)}

InitGate ==
  \E otherFirst \in BOOLEAN :
    /\ songs = GateSongs
    /\ fingerprints =
         IF otherFirst THEN GateOther \o GateRows ELSE GateRows \o GateOther
    /\ impl = "none"
    /\ caller = "none"
    /\ pc = "idle"
    /\ audio = None
    /\ check_signature = "none"
    /\ matches = <<>>
    /\ pos = 0
    /\ diff_counter = VoterInit.diff_counter
    /\ largest = VoterInit.largest
    /\ largest_count = VoterInit.largest_count
    /\ song_id = VoterInit.song_id
    /\ result = None

GateFingerprintSong ==
  \E a \in GateAudioFiles : FingerprintSongStart(a, "Yes")

NextGate == GateFingerprintSong \/ AlignLoop \/ FingerprintSongFinish

SpecGate == InitGate /\ [][NextGate]_vars

(***************************************************************************)
(* Properties of the voter                                                 *)
(***************************************************************************)
Consumed == SubSeq(matches, 1, pos)

\* number of observations of seq that fall into the cell <<sid, diff>>
Votes(seq, cell) == Cardinality({i \in 1..Len(seq) : seq[i] = cell})

CellsOf(seq) == {seq[i] : i \in 1..Len(seq)}

LargestBucket(seq) ==
  IF seq = <<>> THEN 0 ELSE SetMax({Votes(seq, c) : c \in CellsOf(seq)})

\* the count the nested table holds for a cell, 0 for a cell it does not have
TableCount(dc, cell) ==
  IF cell[2] \in DOMAIN dc /\ cell[1] \in DOMAIN dc[cell[2]]
  THEN dc[cell[2]][cell[1]] ELSE 0

TableCells(dc) == {<<s, d>> : d \in DOMAIN dc, s \in UNION {DOMAIN dc[x] : x \in DOMAIN dc}}

LoopEnded == pos = Len(matches)

\* C1: after every consumed prefix the table holds, for every cell, the
\* number of its observations, largest_count is the size of the largest
\* bucket and the tracked cell holds that count (the ingestion voter tracks
\* the song only: some cell of that song holds it); a reported verdict
\* carries that count as its confidence.
C1_LargestCountIsLargestBucket ==
  /\ \A c \in CellsOf(Consumed) \cup TableCells(diff_counter) :
       TableCount(diff_counter, c) = Votes(Consumed, c)
  /\ largest_count = LargestBucket(Consumed)
  /\ largest_count > 0 =>
       IF impl = "ingest"
       THEN \E d \in DOMAIN diff_counter :
              TableCount(diff_counter, <<song_id, d>>) = largest_count
       ELSE TableCount(diff_counter, <<song_id, largest>>) = largest_count
  /\ (pc = "done" /\ result.kind = "verdict") =>
       result.CONFIDENCE = LargestBucket(matches)
  /\ (pc = "done" /\ result.kind = "pair" /\ result.song # None) =>
       result.confidence = LargestBucket(matches)

C1_Witness ==
  /\ pc = "done"
  /\ Len(matches) >= 3
  /\ Cardinality(CellsOf(matches)) >= 2
  /\ largest_count >= 2
  /\ result.kind = "verdict"

\* the observation with which a cell got its last vote
LastVote(seq, cell) == SetMax({i \in 1..Len(seq) : seq[i] = cell})

TopCells(seq) == {c \in CellsOf(seq) : Votes(seq, c) = LargestBucket(seq)}

\* the cell that was first to hold the final maximal count
FirstToTop(seq) ==
  CHOOSE c \in TopCells(seq) :
    \A o \in TopCells(seq) : LastVote(seq, c) <= LastVote(seq, o)

\* C2: when the loop has ended, the tracked song (and offset delta) are
\* those of the cell that reached the maximal count first in consumption
\* order, also when other cells end with the same count.
C2_FirstSeenWinsTies ==
  (LoopEnded /\ matches # <<>>) =>
    /\ song_id = FirstToTop(matches)[1]
    /\ impl # "ingest" => largest = FirstToTop(matches)[2]

C2_Witness ==
  /\ LoopEnded
  /\ Len(matches) >= 3
  /\ Cardinality(TopCells(matches)) >= 2
  /\ matches[1] # matches[Len(matches)]
  /\ <<song_id, largest>> = matches[1]
  /\ impl = "file"

Orderings(seq) ==
  {[i \in 1..Len(seq) |-> seq[f[i]]] : f \in Permutations(1..Len(seq))}

\* C8 as claimed: every ordering of the observations gives the same count
\* table and the same verdict (song_id, confidence, offset_delta).
C8_SameVerdictForEveryOrder ==
  LoopEnded =>
    \A p \in Orderings(matches) :
      LET st == AlignFold(impl, VoterInit, p)
      IN  /\ st.diff_counter = diff_counter
          /\ st.song_id = song_id
          /\ st.largest_count = largest_count
          /\ st.largest = largest

\* C8 amended: every ordering gives the same count table and the same
\* confidence; song_id and offset_delta are the same when one cell alone
\* holds the maximal count.
C8_SameTableAndConfidence ==
  LoopEnded =>
    \A p \in Orderings(matches) :
      LET st == AlignFold(impl, VoterInit, p)
      IN  /\ st.diff_counter = diff_counter
          /\ st.largest_count = largest_count
          /\ Cardinality(TopCells(matches)) = 1 =>
               /\ st.song_id = song_id
               /\ st.largest = largest

C8_Witness ==
  /\ LoopEnded
  /\ Len(matches) >= 3
  /\ Cardinality(TopCells(matches)) = 1
  /\ Cardinality(CellsOf(matches)) >= 2
  /\ matches[1] # <<song_id, largest>>
  /\ impl = "mic"

\* C10: when get_song_by_id has no row for the winning song_id, the file
\* and the microphone voter return a verdict with the fallback name.
C10_AbsentSongGivesFallback ==
  (pc \in {"done", "failed"} /\ impl \in {"file", "mic"}
     /\ get_song_by_id(songs, song_id) = None) =>
    /\ pc = "done"
    /\ result.kind = "verdict"
    /\ result.SONG_NAME = "Unknown"

(***************************************************************************)
(* Properties of the matcher                                               *)
(***************************************************************************)
\* the number a stored offset stands for, whichever way it is stored
StoredValue(so) ==
  CHOOSE n \in 0..MaxOffset : so \in {BindOffset(n), Integer(n)}

Occurrences(hashes, key) ==
  {i \in 1..Len(hashes) : Upper(hashes[i][1]) = key}

\* the query offset of the last occurrence of a token
LastOffset(hashes, key) == hashes[SetMax(Occurrences(hashes, key))][2]

\* the rows (by position) whose hash is among the query tokens
MatchingRows(hashes, store) ==
  {r \in 1..Len(store) : Occurrences(hashes, Upper(store[r].hash)) # {}}

ExpectedObservation(hashes, store, r) ==
  <<store[r].song_fk,
    StoredValue(store[r].offset) - LastOffset(hashes, Upper(store[r].hash))>>

ExpectedBag(hashes, store) ==
  LET M == MatchingRows(hashes, store)
  IN  [o \in {ExpectedObservation(hashes, store, r) : r \in M} |->
         Cardinality({r \in M : ExpectedObservation(hashes, store, r) = o})]

BagOf(seq) == [o \in CellsOf(seq) |-> Votes(seq, o)]

MatcherEnded == caller = "call" /\ pc \in {"done", "failed"} /\ result # None
                  /\ result.kind \in {"ok", "raise"}

\* C5: every matcher (ingestion, file, microphone) yields exactly one
\* observation (song_id, stored offset - kept query offset) for every
\* stored row whose hash is a query token, and none for any other row.
C5_OneObservationPerMatchingRow ==
  MatcherEnded =>
    /\ Len(matches) =
         Cardinality(MatchingRows(audio.channels[1], fingerprints))
    /\ BagOf(matches) = ExpectedBag(audio.channels[1], fingerprints)

\* C6: the token map holds, for every token, the offset of its last
\* occurrence in the hash sequence, and the observation of every returned
\* row is computed against that offset.
C6_LastWriteWins ==
  MatcherEnded =>
    LET hashes == audio.channels[1]
        mapper == Mapper(hashes)
        hit == SelectSeq(fingerprints,
                 LAMBDA r : Occurrences(hashes, Upper(r.hash)) # {})
    IN  /\ DOMAIN mapper.val = {Upper(hashes[i][1]) : i \in 1..Len(hashes)}
        /\ \A k \in DOMAIN mapper.val : mapper.val[k] = LastOffset(hashes, k)
        /\ result.kind = "ok" =>
             /\ Len(matches) = Len(hit)
             /\ \A i \in 1..Len(hit) :
                  matches[i][2] =
                    StoredValue(hit[i].offset)
                      - LastOffset(hashes, Upper(hit[i].hash))

C6_Witness ==
  /\ MatcherEnded
  /\ result.kind = "ok"
  /\ Len(matches) >= 2
  /\ \E i, j \in 1..Len(audio.channels[1]) :
       /\ i < j
       /\ audio.channels[1][i][1] = audio.channels[1][j][1]
       /\ audio.channels[1][i][2] < audio.channels[1][j][2]
       /\ \E r \in 1..Len(fingerprints) :
            fingerprints[r].hash = audio.channels[1][i][1]

BatchSizes == {1, BatchSize}

\* the lookup results of the batches, merged in the order given by p
MergedIn(im, hashes, store, n, p) ==
  LET mapper == Mapper(hashes)
      groups == grouper(mapper.keys, n)
  IN  Flatten([g \in 1..Len(groups) |->
                 LET rows == execute_all_lookup(store, groups[p[g]])
                 IN  [i \in 1..Len(rows) |->
                        Observation(im, mapper, rows[i])]], 1)

\* C7: the multiset of observations is the same for every lookup batch
\* size and every order of the batches, and every query token is in
\* exactly one batch.
C7_BatchInvariance ==
  (MatcherEnded /\ result.kind = "ok") =>
    LET hashes == audio.channels[1]
        keys == Mapper(hashes).keys
    IN  \A n \in BatchSizes :
          LET groups == grouper(keys, n)
          IN  /\ BagOf(ReturnMatches(impl, hashes, fingerprints, n).matches)
                   = BagOf(matches)
              /\ \A k \in 1..Len(keys) :
                   Cardinality(UNION {
                     {<<g, i>> : i \in {j \in 1..Len(groups[g]) :
                                          groups[g][j] = keys[k]}} :
                     g \in 1..Len(groups)}) = 1
              /\ \A p \in Permutations(1..Len(groups)) :
                   BagOf(MergedIn(impl, hashes, fingerprints, n, p))
                     = BagOf(matches)

C7_Witness ==
  /\ MatcherEnded
  /\ result.kind = "ok"
  /\ impl = "ingest"
  /\ Len(Mapper(audio.channels[1]).keys) >= 2
  /\ Len(matches) >= 2
  /\ Len(grouper(Mapper(audio.channels[1]).keys, 1)) >= 2

(***************************************************************************)
(* Properties of ingestion and recognition                                 *)
(***************************************************************************)
\* C3: with the signature check on, an observation stream whose largest
\* cell has fewer than DupThreshold votes (999) is not flagged and the song
\* and its hashes are added; with DupThreshold (1000) votes or more the
\* file is flagged as a duplicate and nothing is added.
C3_ThresholdGate ==
  (caller = "fingerprint_song" /\ check_signature = "Yes"
     /\ pc \in {"done", "failed"} /\ matches # <<>>) =>
    IF LargestBucket(matches) >= DupThreshold
    THEN /\ result.kind = "skipped"
         /\ result.why = "duplicate"
         /\ songs = GateSongs
         /\ Len(fingerprints) = Len(GateRows) + Len(GateOther)
    ELSE /\ result.kind = "stored"
         /\ \E s \in songs : s.id = result.id /\ s.filehash = audio.file_hash
         /\ Cardinality(songs) = Cardinality(GateSongs) + 1
         /\ Len(fingerprints) =
              Len(GateRows) + Len(GateOther)
                + Cardinality(AllChannelHashes(audio))

C3_Witness ==
  /\ caller = "fingerprint_song"
  /\ check_signature = "Yes"
  /\ pc = "done"
  /\ LargestBucket(matches) = DupThreshold
  /\ result.kind = "skipped"

\* the store holds exactly the hash set of the clip, under one song
StoredAlone(clip) ==
  /\ AllChannelHashes(clip) # {}
  /\ Len(fingerprints) = Cardinality(AllChannelHashes(clip))
  /\ {<<fingerprints[r].hash, StoredValue(fingerprints[r].offset)>> :
        r \in 1..Len(fingerprints)} = AllChannelHashes(clip)
  /\ \A r \in 1..Len(fingerprints) :
       fingerprints[r].song_fk = fingerprints[1].song_fk

\* C4: matching a clip against the store that holds its own hash set under
\* one song gives a verdict with that song and offset_delta 0.
C4_RoundTrip ==
  (caller = "recognize" /\ impl = "file" /\ pc \in {"done", "failed"}
     /\ StoredAlone(audio)) =>
    /\ result.kind = "verdict"
    /\ result.SONG_ID = fingerprints[1].song_fk
    /\ result.OFFSET = 0

\* some channel of the clip has a token that a stored row holds
AnyRowMatched(clip) ==
  \E c \in 1..Len(clip.channels) :
    MatchingRows(clip.channels[c], fingerprints) # {}

\* C9: a recognition run reports a verdict if and only if the query matched
\* at least one stored row; the verdict has confidence >= 1 and the song_id
\* of an observation; without a match the voter is not run and no verdict
\* (so no song_id -1) is reported.
C9_VerdictIffObservations ==
  (caller = "recognize" /\ pc \in {"done", "failed"}) =>
    IF AnyRowMatched(audio)
    THEN /\ result.kind = "verdict"
         /\ result.CONFIDENCE >= 1
         /\ \E r \in 1..Len(fingerprints) :
              result.SONG_ID = fingerprints[r].song_fk
    ELSE /\ result.kind # "verdict"
         /\ pos = 0
         /\ largest_count = 0

(***************************************************************************)
(* generate_hashes (libs/fingerprint.py).  A peak is <<frequency_bin,      *)
(* time_bin>>.  The token of a pair is the digest prefix of the string     *)
(* "freq1|freq2|t_delta": one token per triple.                            *)
(***************************************************************************)
MIN_HASH_TIME_DELTA == 0
MAX_HASH_TIME_DELTA == 200
PEAK_SORT == TRUE

MaxPeaks == 3
MaxFreq == 2
MaxTime == 1
MaxFan == 3

\* hashlib.sha1(f"{freq1}|{freq2}|{t_delta}").hexdigest()[:20]
HashToken(freq1, freq2, t_delta) ==
  [case |-> "lower", n |-> <<freq1, freq2, t_delta>>]

\* a sort that leaves the list in the order it came in
SortByTimeNot(peaks) == peaks

\* peaks.sort(key=itemgetter(1)): a stable sort by the time bin
SortByTime(peaks) ==
  LET n == Len(peaks)
      rank(i) ==
        1 + Cardinality({j \in 1..n :
              \/ peaks[j][2] < peaks[i][2]
              \/ (peaks[j][2] = peaks[i][2] /\ j < i)})
  IN  [k \in 1..n |-> peaks[CHOOSE i \in 1..n : rank(i) = k]]

\* range(1, fan_value + 1) in place of range(1, fan_value)
FanRangeInclusive(fan_value) == 1..fan_value

\* for j in range(1, fan_value)
FanRange(fan_value) == 1..(fan_value - 1)

\* the index pairs <<i, i + j>> the two loops reach with (i + j) < len(peaks),
\* in loop order (indices from 1)
Considered(n, fan_value) ==
  Flatten([i \in 1..n |->
             SelectSeq([j \in FanRange(fan_value) |-> <<i, i + j>>],
                       LAMBDA p : p[2] <= n)], 1)

\* "<" in place of the second "<="
InTimeDeltaStrict(t_delta) ==
  MIN_HASH_TIME_DELTA <= t_delta /\ t_delta < MAX_HASH_TIME_DELTA

\* if MIN_HASH_TIME_DELTA <= t_delta <= MAX_HASH_TIME_DELTA
InTimeDelta(t_delta) ==
  MIN_HASH_TIME_DELTA <= t_delta /\ t_delta <= MAX_HASH_TIME_DELTA

\* list(generate_hashes(peaks, fan_value)): the list peaks as the call
\* leaves it, the pairs considered and the tuples yielded
generate_hashes(peaks, fan_value) ==
  LET sorted == IF PEAK_SORT THEN SortByTime(peaks) ELSE peaks
      pairs == Considered(Len(sorted), fan_value)
      kept == SelectSeq(pairs,
                LAMBDA p : InTimeDelta(sorted[p[2]][2] - sorted[p[1]][2]))
  IN  [kind |-> "hashes",
       peaks |-> sorted,
       considered |-> pairs,
       hashes |->
         [k \in 1..Len(kept) |->
            LET a == sorted[kept[k][1]]
                b == sorted[kept[k][2]]
            IN  <<HashToken(a[1], b[1], b[2] - a[2]), a[2]>>]]

(***************************************************************************)
(* generate_hashes as a function: the peak list and the fan value are      *)
(* drawn from bounded sets; time bins include the two around the largest   *)
(* time delta.                                                             *)
(***************************************************************************)
TimeBins == (0..MaxTime) \cup {MAX_HASH_TIME_DELTA, MAX_HASH_TIME_DELTA + 1}
PeakCells == (1..MaxFreq) \X TimeBins

InitHasher ==
  \E peaks \in SeqsUpTo(PeakCells, MaxPeaks), fan_value \in 1..MaxFan :
    /\ songs = {}
    /\ fingerprints = <<>>
    /\ impl = "none"
    /\ caller = "call"
    /\ pc = "hash"
    /\ audio = [peaks |-> peaks, fan_value |-> fan_value]
    /\ check_signature = "none"
    /\ matches = <<>>
    /\ pos = 0
    /\ diff_counter = VoterInit.diff_counter
    /\ largest = VoterInit.largest
    /\ largest_count = VoterInit.largest_count
    /\ song_id = VoterInit.song_id
    /\ result = None

GenerateHashesCall ==
  /\ pc = "hash"
  /\ result' = generate_hashes(audio.peaks, audio.fan_value)
  /\ pc' = "done"
  /\ UNCHANGED <<dbVars, impl, caller, audio, check_signature, matches, pos,
                 voterVars>>

NextHasher == GenerateHashesCall

SpecHasher == InitHasher /\ [][NextHasher]_vars

(***************************************************************************)
(* Properties of the hasher                                                *)
(***************************************************************************)
HasherEnded == pc = "done" /\ result # None /\ result.kind = "hashes"

SetOf(seq) == {seq[i] : i \in 1..Len(seq)}

\* C11: every permutation of the peak list gives the same set of
\* (hash_token, time_offset) pairs.
C11_PeakOrderInvariance ==
  HasherEnded =>
    \A q \in Orderings(audio.peaks) :
      SetOf(generate_hashes(q, audio.fan_value).hashes) = SetOf(result.hashes)

\* the pairs considered for the peak at sorted index i
PairsOf(i) ==
  {k \in 1..Len(result.considered) : result.considered[k][1] = i}

Min(a, b) == IF a <= b THEN a ELSE b

\* C12: with n sorted peaks and fan value F >= 1, the peak at index i is
\* paired only with the peaks at i+1 .. i+F-1 (each at most once), the
\* number of pairs considered for it is min(F-1, n-1-i) (i counted from 0),
\* every hash comes from a considered pair, and F = 1 emits no hash.
C12_FanOutBound ==
  HasherEnded =>
    LET n == Len(audio.peaks)
        F == audio.fan_value
    IN  /\ \A k \in 1..Len(result.considered) :
             LET p == result.considered[k]
             IN  /\ p[1] \in 1..n
                 /\ p[2] > p[1]
                 /\ p[2] <= p[1] + F - 1
                 /\ p[2] <= n
        /\ \A k, l \in 1..Len(result.considered) :
             result.considered[k] = result.considered[l] => k = l
        /\ \A i \in 1..n : Cardinality(PairsOf(i)) = Min(F - 1, n - i)
        /\ Len(result.hashes) <= Len(result.considered)
        /\ F = 1 => result.hashes = <<>>

C12_Witness ==
  /\ HasherEnded
  /\ Len(audio.peaks) = 3
  /\ audio.fan_value = 2
  /\ Len(result.considered) = 2
  /\ Len(result.hashes) = 2

\* the time delta of a considered pair
DeltaOf(p) == result.peaks[p[2]][2] - result.peaks[p[1]][2]

\* the considered pairs whose time delta is within the bounds, in loop order
WithinBounds ==
  SelectSeq(result.considered,
    LAMBDA p : DeltaOf(p) >= MIN_HASH_TIME_DELTA
                 /\ DeltaOf(p) <= MAX_HASH_TIME_DELTA)

\* C13: the emitted hashes are, pair by pair, those of the considered pairs
\* with MIN_HASH_TIME_DELTA <= t2 - t1 <= MAX_HASH_TIME_DELTA: one
\* (hash_token, t1) each, with the time bin of the first peak as offset; a
\* pair with t2 - t1 = MAX_HASH_TIME_DELTA + 1 emits none.
C13_TimeDeltaFilter ==
  HasherEnded =>
    /\ Len(result.hashes) = Len(WithinBounds)
    /\ \A k \in 1..Len(WithinBounds) :
         LET a == result.peaks[WithinBounds[k][1]]
             b == result.peaks[WithinBounds[k][2]]
         IN  /\ result.hashes[k][1] = HashToken(a[1], b[1], b[2] - a[2])
             /\ result.hashes[k][2] = a[2]
             /\ result.hashes[k][1].n[3] \in
                  MIN_HASH_TIME_DELTA..MAX_HASH_TIME_DELTA
    /\ \A k \in 1..Len(result.hashes) :
         result.hashes[k][1].n[3] # MAX_HASH_TIME_DELTA + 1

C13_Witness ==
  /\ HasherEnded
  /\ \E k \in 1..Len(result.considered) :
       DeltaOf(result.considered[k]) = MAX_HASH_TIME_DELTA + 1
  /\ \E k \in 1..Len(result.hashes) :
       result.hashes[k][1].n[3] = MAX_HASH_TIME_DELTA
  /\ Len(result.hashes) < Len(result.considered)

(***************************************************************************)
(* get_2d_peaks (libs/fingerprint.py).  The grid arr_2d has a row per      *)
(* frequency bin and a column per time bin (mlab.specgram), amplitudes are *)
(* integers.                                                               *)
(***************************************************************************)
PEAK_NEIGHBORHOOD_SIZE == 20
DEFAULT_AMP_MIN == 10

MaxFreqBins == 2
MaxMargin == 2
MaxSpikes == 2
MaxAmp == 2
MaxWindows == 2

\* the grid: MaxFreqBins rows, and MaxMargin columns more than the radius
\* of the neighbourhood
GridRows == 0..(MaxFreqBins - 1)
GridCols == 0..(PEAK_NEIGHBORHOOD_SIZE + MaxMargin - 1)
GridCells == GridRows \X GridCols

\* wsize: a window whose spectrum has one bin more than the radius of the
\* neighbourhood spans
WindowSizes == {2 * (PEAK_NEIGHBORHOOD_SIZE + 1)}

\* rows and columns of the grids: the grid above, and the spectrograms of
\* up to MaxWindows windows (wsize // 2 + 1 frequency bins each)
Shapes ==
  {<<Cardinality(GridRows), Cardinality(GridCols)>>}
    \cup {<<wsize \div 2 + 1, k>> : wsize \in WindowSizes, k \in 1..MaxWindows}

ShapeCells(shape) == (0..(shape[1] - 1)) \X (0..(shape[2] - 1))

\* arr_2d.shape
Shape(arr) ==
  <<1 + SetMax({c[1] : c \in DOMAIN arr}),
    1 + SetMax({c[2] : c \in DOMAIN arr})>>

Abs(x) == IF x < 0 THEN -x ELSE x

\* iterate_structure(generate_binary_structure(2, 1), PEAK_NEIGHBORHOOD_SIZE):
\* the offsets of the diamond of that radius
Footprint ==
  {o \in (-PEAK_NEIGHBORHOOD_SIZE..PEAK_NEIGHBORHOOD_SIZE)
          \X (-PEAK_NEIGHBORHOOD_SIZE..PEAK_NEIGHBORHOOD_SIZE) :
     Abs(o[1]) + Abs(o[2]) <= PEAK_NEIGHBORHOOD_SIZE}

\* the index that mode="reflect" (the default of maximum_filter) reads for
\* index k of an axis of length n: (d c b a | a b c d | d c b a)
Reflect(k, n) ==
  LET m == k % (2 * n)
  IN  IF m < n THEN m ELSE 2 * n - 1 - m

\* the cells maximum_filter reads for a cell (@@ makes the function a table
\* that is computed once)
MaxFilterCells ==
  [shape \in Shapes |->
     [c \in ShapeCells(shape) |->
        {<<Reflect(c[1] + o[1], shape[1]),
           Reflect(c[2] + o[2], shape[2])>> : o \in Footprint}]
       @@ <<>>]
    @@ <<>>

\* the cells of the grid binary_erosion reads for a cell; beyond the border
\* it reads border_value=1
ErosionCells ==
  [shape \in Shapes |->
     [c \in ShapeCells(shape) |->
        {<<c[1] + o[1], c[2] + o[2]>> : o \in Footprint}
          \cap ShapeCells(shape)]
       @@ <<>>]
    @@ <<>>

maximum_filter(arr) ==
  LET cells == MaxFilterCells[Shape(arr)]
  IN  [c \in DOMAIN arr |-> SetMax({arr[x] : x \in cells[c]})]

\* a dilation in place of the erosion
binary_erosionAny(mask) ==
  LET cells == ErosionCells[Shape(mask)]
  IN  [c \in DOMAIN mask |-> \E x \in cells[c] : mask[x]]

binary_erosion(mask) ==
  LET cells == ErosionCells[Shape(mask)]
  IN  [c \in DOMAIN mask |-> \A x \in cells[c] : mask[x]]

\* ">=" in place of ">"
AboveFloorOrEqual(amp, amp_min) == amp >= amp_min

\* if x[2] > amp_min
AboveFloor(amp, amp_min) == amp > amp_min

\* the cells in the order of np.nonzero: row by row
RowMajor(shape) ==
  [k \in 1..(shape[1] * shape[2]) |->
     <<(k - 1) \div shape[2], (k - 1) % shape[2]>>]

\* list(get_2d_peaks(arr_2d, amp_min=amp_min)): tuples
\* (frequency_idx, time_idx) = (row, column)
get_2d_peaks(arr_2d, amp_min) ==
  LET filtered == maximum_filter(arr_2d)
      local_max == [c \in DOMAIN arr_2d |-> filtered[c] = arr_2d[c]]
      background == [c \in DOMAIN arr_2d |-> arr_2d[c] = 0]
      eroded_background == binary_erosion(background)
      detected_peaks ==
        [c \in DOMAIN arr_2d |-> local_max[c] # eroded_background[c]]
      peaks ==
        SelectSeq(RowMajor(Shape(arr_2d)), LAMBDA c : detected_peaks[c])
      peaks_filtered ==
        SelectSeq(peaks, LAMBDA c : AboveFloor(arr_2d[c], amp_min))
  IN  [kind |-> "peaks", peaks |-> peaks_filtered]

(***************************************************************************)
(* get_2d_peaks as a function: a grid of one base amplitude with up to     *)
(* MaxSpikes cells of other amplitudes, in the corners of the grid and one *)
(* radius away from them.                                                  *)
(***************************************************************************)
BaseAmps == {-1, 0, DEFAULT_AMP_MIN + 1}
SpikeAmps == DEFAULT_AMP_MIN..(DEFAULT_AMP_MIN + MaxAmp)
SpikeCells ==
  {0, MaxFreqBins - 1}
    \X {0, 1, PEAK_NEIGHBORHOOD_SIZE, PEAK_NEIGHBORHOOD_SIZE + 1}

Spikes ==
  UNION {[S -> SpikeAmps] :
           S \in {T \in SUBSET SpikeCells : Cardinality(T) <= MaxSpikes}}

Grid(base, spikes) ==
  [c \in GridCells |-> IF c \in DOMAIN spikes THEN spikes[c] ELSE base]

InitPeaks ==
  \E base \in BaseAmps, spikes \in Spikes, amp_min \in {0, DEFAULT_AMP_MIN} :
    /\ songs = {}
    /\ fingerprints = <<>>
    /\ impl = "none"
    /\ caller = "call"
    /\ pc = "peaks"
    /\ audio = [arr_2d |-> Grid(base, spikes), amp_min |-> amp_min]
    /\ check_signature = "none"
    /\ matches = <<>>
    /\ pos = 0
    /\ diff_counter = VoterInit.diff_counter
    /\ largest = VoterInit.largest
    /\ largest_count = VoterInit.largest_count
    /\ song_id = VoterInit.song_id
    /\ result = None

Get2dPeaksCall ==
  /\ pc = "peaks"
  /\ result' = get_2d_peaks(audio.arr_2d, audio.amp_min)
  /\ pc' = "done"
  /\ UNCHANGED <<dbVars, impl, caller, audio, check_signature, matches, pos,
                 voterVars>>

NextPeaks == Get2dPeaksCall

SpecPeaks == InitPeaks /\ [][NextPeaks]_vars

(***************************************************************************)
(* Properties of the peak extractor                                        *)
(***************************************************************************)
PeaksEnded == pc = "done" /\ result # None /\ result.kind = "peaks"

\* the cells of the grid in the diamond of radius PEAK_NEIGHBORHOOD_SIZE
\* around a cell
Diamond(c) ==
  {x \in GridCells :
     Abs(x[1] - c[1]) + Abs(x[2] - c[2]) <= PEAK_NEIGHBORHOOD_SIZE}

\* C14: every returned (frequency_bin, time_bin) is a cell (row, column) of
\* the grid whose amplitude is strictly greater than amp_min and equal to
\* the maximum of the grid over the diamond around it.
C14_PeakIsLocalMaxAboveFloor ==
  PeaksEnded =>
    \A k \in 1..Len(result.peaks) :
      LET p == result.peaks[k]
      IN  /\ p[1] \in GridRows
          /\ p[2] \in GridCols
          /\ audio.arr_2d[p] > audio.amp_min
          /\ \A x \in Diamond(p) : audio.arr_2d[x] <= audio.arr_2d[p]

C14_Witness ==
  /\ PeaksEnded
  /\ Len(result.peaks) = 2
  /\ result.peaks[1][1] # result.peaks[2][1]
  /\ result.peaks[2][2] > Cardinality(GridRows)
  /\ \E x \in GridCells :
       /\ x \notin SetOf(result.peaks)
       /\ audio.arr_2d[x] = audio.amp_min

\* C15: no two returned peaks lie within each other's diamond.
C15_OnePeakPerNeighbourhood ==
  PeaksEnded =>
    \A k, l \in 1..Len(result.peaks) :
      k # l => result.peaks[l] \notin Diamond(result.peaks[k])

(***************************************************************************)
(* The commands of a single writer on one database: ingestion, direct      *)
(* calls of add_song and store_fingerprints, recognition, statistics       *)
(* (get_database_stat.py) and reset_database.py.  Every file has one       *)
(* channel with one hash.                                                  *)
(***************************************************************************)
LibraryChannels == <<<<<<Tok(1), 0>>>>>>

LibraryMetadata ==
  {Tags(Title(1), Some("artist"), Some(1234)),
   Tags(None, Some("artist"), Some(1234))}

LibraryFiles ==
  {AudioFile(<<"song", fh>>, <<"filehash", fh>>, md, LibraryChannels) :
     fh \in 1..MaxSongs, md \in LibraryMetadata}

LibraryFingerprintSong ==
  \E a \in LibraryFiles, chk \in {"Yes", "No"} :
    /\ FingerprintSongStart(a, chk)
    /\ Cardinality(songs') <= MaxSongs
    /\ Len(fingerprints') <= MaxRows

\* db.add_song(filename, filehash, metadata) called on its own
AddSongCall ==
  \E name \in {<<"copy", 0>>} \cup {<<"song", fh>> : fh \in 1..MaxSongs},
     fh \in 1..MaxSongs, md \in LibraryMetadata :
    /\ pc = "idle"
    /\ LET added == add_song(songs, name, <<"filehash", fh>>, md)
       IN  /\ Cardinality(added.songs) <= MaxSongs
           /\ songs' = added.songs
           /\ result' = [kind |-> "id", id |-> added.id]
    /\ caller' = "add_song"
    /\ audio' = AudioFile(name, <<"filehash", fh>>, md, <<>>)
    /\ pc' = "done"
    /\ UNCHANGED <<fingerprints, impl, check_signature, matches, pos,
                   voterVars>>

\* db.store_fingerprints(values) called on its own
StoreFingerprintsCall ==
  \E values \in {[i \in 1..n |-> <<sid, Tok(1), 0>>] :
                    n \in 1..MaxHashes, sid \in 1..MaxSongs} :
    /\ pc = "idle"
    /\ Len(fingerprints) + Len(values) <= MaxRows
    /\ fingerprints' = store_fingerprints(fingerprints, values)
    /\ caller' = "store_fingerprints"
    /\ audio' = [values |-> values]
    /\ result' = None
    /\ pc' = "done"
    /\ UNCHANGED <<songs, impl, check_signature, matches, pos, voterVars>>

\* get_database_stat.py: print_summary
Statistics ==
  /\ pc = "idle"
  /\ caller' = "get_database_stat"
  /\ result' = [kind |-> "summary", songs_count |-> Cardinality(songs),
                fingerprints_count |-> Len(fingerprints)]
  /\ pc' = "done"
  /\ UNCHANGED <<dbVars, impl, audio, check_signature, matches, pos,
                 voterVars>>

\* reset_database.py: both tables are dropped and created again
ResetDatabase ==
  /\ pc = "idle"
  /\ songs' = {}
  /\ fingerprints' = <<>>
  /\ caller' = "reset_database"
  /\ result' = None
  /\ pc' = "done"
  /\ UNCHANGED <<impl, audio, check_signature, matches, pos, voterVars>>

\* a clip of one channel, and one of two channels with the same hashes
LibraryRecognize ==
  \E im \in {"file", "mic"},
     ch \in {LibraryChannels, LibraryChannels \o LibraryChannels} :
    Recognize(im, AudioFile("clip", "clip", Tags(None, None, None), ch))

NextLibrary ==
  \/ LibraryFingerprintSong
  \/ FingerprintSongFinish
  \/ AddSongCall
  \/ StoreFingerprintsCall
  \/ LibraryRecognize
  \/ RecognizeReport
  \/ AlignLoop
  \/ Statistics
  \/ ResetDatabase
  \/ Exit

SpecLibrary == Init /\ [][NextLibrary]_vars

(***************************************************************************)
(* Properties of the stored records                                        *)
(***************************************************************************)
\* a count without the WHERE clause
get_song_hashes_countAll(store, sid) == Len(store)

\* SqliteDatabase.get_song_hashes_count
get_song_hashes_count(store, sid) ==
  Cardinality({i \in 1..Len(store) : store[i].song_fk = sid})

Triples(store) == {store[i] : i \in 1..Len(store)}

\* C16: store_fingerprints is idempotent: the store holds at most one row
\* for each (song_fk, hash, offset), so the count of a song's rows is the
\* number of its distinct triples.
C16_InsertIsIdempotent ==
  /\ Len(fingerprints) = Cardinality(Triples(fingerprints))
  /\ \A sid \in 1..MaxSongs :
       get_song_hashes_count(fingerprints, sid)
         = Cardinality({r \in Triples(fingerprints) : r.song_fk = sid})


IsPrefix(s, t) == Len(s) <= Len(t) /\ SubSeq(t, 1, Len(s)) = s

\* C17: the stored fingerprint rows are append-only: every step of
\* ingestion, recognition and statistics keeps the rows it finds, unchanged
\* and in place, and may only add rows after them; rows disappear only in
\* the step of the database reset, which empties songs and fingerprints
\* together.
C17_AppendOnly ==
  [][\/ IsPrefix(fingerprints, fingerprints')
     \/ /\ caller' = "reset_database"
        /\ fingerprints' = <<>>
        /\ songs' = {}]_vars

C17_Witness ==
  /\ caller = "recognize"
  /\ pc = "done"
  /\ result.kind = "verdict"
  /\ Len(fingerprints) >= 2
  /\ \E i \in 1..Len(fingerprints) :
       fingerprints[i].song_fk # fingerprints[1].song_fk


StoredWithHash(tbl, filehash) == {s \in tbl : s.filehash = filehash}

\* C18: a song is created once per audio asset: no two rows of songs have
\* the same filehash; add_song with a filehash that is already stored
\* returns the id of the stored row and inserts nothing; fingerprint_song
\* on a file whose filehash is already stored stores no song and no
\* fingerprints.
C18_OncePerAsset ==
  [][/\ \A s, t \in songs' : s.filehash = t.filehash => s = t
     /\ pc = "idle" /\ caller' = "add_song"
          => \A s \in StoredWithHash(songs, audio'.file_hash) :
               songs' = songs /\ result'.id = s.id
     /\ pc = "idle" /\ caller' = "fingerprint_song"
          => \A s \in StoredWithHash(songs, audio'.file_hash) :
               songs' = songs /\ fingerprints' = fingerprints]_vars

C18_Witness ==
  /\ caller = "add_song"
  /\ pc = "done"
  /\ Cardinality(songs) >= 2
  /\ \E s \in StoredWithHash(songs, audio.file_hash) :
       /\ s.name # audio.songname
       /\ s.tags["title"] # TagValue("title", audio.metadata["title"])
       /\ result.id = s.id

(***************************************************************************)
(* fingerprint (libs/fingerprint.py).  The Fourier transform is not        *)
(* computed: a sample buffer is its length together with the power that    *)
(* the transform finds in each frequency bin of each of its windows, and   *)
(* powers are integers.                                                    *)
(***************************************************************************)
\* noverlap=int(wsize * wratio), wratio = DEFAULT_OVERLAP_RATIO = 0.5
Noverlap(wsize) == wsize \div 2

\* the windows mlab.specgram transforms: a buffer shorter than NFFT is
\* padded with zeros to one window
NumWindows(n, NFFT, noverlap) ==
  IF n < NFFT THEN 1 ELSE (n - noverlap) \div (NFFT - noverlap)

\* mlab.specgram(channel_samples, NFFT, Fs, window, noverlap)[0]: len(x) of
\* an absent buffer and 1/Fs of a zero rate raise; the power spectral
\* density is the power divided by Fs
specgram(x, NFFT, Fs, noverlap) ==
  IF x = None THEN Raise("TypeError")
  ELSE IF Fs = 0 THEN Raise("ZeroDivisionError")
  ELSE [kind |-> "ok",
        spec |-> [c \in DOMAIN x.spectrum |->
                    IF Fs > 0 THEN x.spectrum[c] \div Fs
                    ELSE -(x.spectrum[c] \div (-Fs))]]

RECURSIVE Log10(_)
Log10(p) == IF p < 10 THEN 0 ELSE 1 + Log10(p \div 10)

\* arr_2d = 10 * np.log10(arr_2d); arr_2d[arr_2d == -np.inf] = 0
\* (for powers that are not negative)
LogTransform(p) == IF p = 0 THEN 0 ELSE 10 * Log10(p)

\* fingerprint(channel_samples, fs, wsize, wratio, fan_value, amp_min)
fingerprint(channel_samples, fs, wsize, fan_value, amp_min) ==
  LET sg == specgram(channel_samples, wsize, fs, Noverlap(wsize))
  IN  IF sg.kind = "raise" THEN sg
      ELSE LET arr_2d == [c \in DOMAIN sg.spec |-> LogTransform(sg.spec[c])]
               local_maxima == get_2d_peaks(arr_2d, amp_min)
           IN  generate_hashes(local_maxima.peaks, fan_value)

(***************************************************************************)
(* fingerprint as a function: absent and empty buffers, buffers of one     *)
(* sample less than a window and of whole windows, silent or with up to    *)
(* MaxSpikes loud bins over a floor, and sample rates -1, 0 and 1.  A      *)
(* negative rate comes with silent buffers only (the logarithm of a        *)
(* negative density is not a number).                                      *)
(***************************************************************************)
BufferLens(wsize) ==
  {0, wsize - 1}
    \cup {wsize + (k - 1) * (wsize - Noverlap(wsize)) : k \in 1..MaxWindows}

FloorPowers == {0, 10}
LoudPowers == {10, 1000}

LoudBins(shape) ==
  {0, 1, PEAK_NEIGHBORHOOD_SIZE + 1} \X {0, shape[2] - 1}

Spectra(shape) ==
  UNION {{[c \in ShapeCells(shape) |-> IF c \in DOMAIN loud THEN loud[c] ELSE base] :
           loud \in UNION {[S -> LoudPowers] :
                            S \in {T \in SUBSET LoudBins(shape) :
                                     Cardinality(T) <= MaxSpikes}}} :
          base \in FloorPowers}

Silent(x) == \A c \in DOMAIN x.spectrum : x.spectrum[c] = 0

Buffers(wsize) ==
  UNION {{[len |-> n, spectrum |-> sp] :
            sp \in {s \in Spectra(<<wsize \div 2 + 1,
                                    NumWindows(n, wsize, Noverlap(wsize))>>) :
                      n = 0 => \A c \in DOMAIN s : s[c] = 0}} :
          n \in BufferLens(wsize)}

SampleRates == {-1, 0, 1}

InitFingerprint ==
  \E wsize \in WindowSizes :
    \E channel_samples \in {None} \cup Buffers(wsize), fs \in SampleRates,
       fan_value \in 1..MaxFan, amp_min \in {0, DEFAULT_AMP_MIN} :
      /\ (channel_samples # None /\ fs < 0) => Silent(channel_samples)
      /\ songs = {}
      /\ fingerprints = <<>>
      /\ impl = "none"
      /\ caller = "call"
      /\ pc = "fingerprint"
      /\ audio = [channel_samples |-> channel_samples, fs |-> fs,
                  wsize |-> wsize, fan_value |-> fan_value,
                  amp_min |-> amp_min]
      /\ check_signature = "none"
      /\ matches = <<>>
      /\ pos = 0
      /\ diff_counter = VoterInit.diff_counter
      /\ largest = VoterInit.largest
      /\ largest_count = VoterInit.largest_count
      /\ song_id = VoterInit.song_id
      /\ result = None

FingerprintCall ==
  /\ pc = "fingerprint"
  /\ result' = fingerprint(audio.channel_samples, audio.fs, audio.wsize,
                           audio.fan_value, audio.amp_min)
  /\ pc' = "done"
  /\ UNCHANGED <<dbVars, impl, caller, audio, check_signature, matches, pos,
                 voterVars>>

NextFingerprint == FingerprintCall

SpecFingerprint == InitFingerprint /\ [][NextFingerprint]_vars

(***************************************************************************)
(* Properties of fingerprint                                               *)
(***************************************************************************)
FingerprintEnded == pc = "done" /\ "fs" \in DOMAIN audio

\* C19: fingerprint called with an absent sample buffer or with a sample
\* rate that is not positive ends in an error, and returns no hash set.
C19_InputErrorsFailFast ==
  FingerprintEnded
    => (audio.channel_samples = None \/ audio.fs <= 0
          => result.kind = "raise")

\* C20: fingerprint called (with a positive sample rate) on an empty
\* buffer or on a buffer of fewer than wsize samples returns an empty hash
\* set and raises no error.
C20_ShortBufferGivesNoHashes ==
  FingerprintEnded
    => ((/\ audio.channel_samples # None
         /\ audio.fs > 0
         /\ audio.channel_samples.len < audio.wsize)
          => result.kind = "hashes" /\ result.hashes = <<>>)


(***************************************************************************)
(* Properties of the songs table                                           *)
(***************************************************************************)
\* a step of add_song called on its own
AddSongStep == pc = "idle" /\ caller' = "add_song"

SongIds == 0..(MaxSongs + 1)

\* an id that get_song_by_id finds after the step and not before it is the
\* id the step returns
NewIdsAreReturned ==
  \A id \in SongIds :
    get_song_by_id(songs', id) # None /\ get_song_by_id(songs, id) = None
      => "id" \in DOMAIN result' /\ result'.id = id

CountSizes ==
  {0, 1, BatchSize - 1, BatchSize, BatchSize + 1, 2 * BatchSize + 1}

\* n triples of the song that differ in their offsets
CountValues(sid, t, n) == [i \in 1..n |-> <<sid, Tok(t), i - 1>>]

OtherRows ==
  SeqsUpTo({FingerprintRow(sid, Tok(1), BindOffset(0)) : sid \in 1..MaxSongs},
           MaxRows)

InitCount ==
  \E store \in OtherRows, sid \in 1..MaxSongs, t \in 1..MaxTok,
     n \in CountSizes :
    /\ \A i \in 1..Len(store) : store[i].song_fk # sid
    /\ songs = {}
    /\ fingerprints = store
    /\ impl = "none"
    /\ caller = "call"
    /\ pc = "store"
    /\ audio = [song_id |-> sid, values |-> CountValues(sid, t, n)]
    /\ check_signature = "none"
    /\ matches = <<>>
    /\ pos = 0
    /\ diff_counter = VoterInit.diff_counter
    /\ largest = VoterInit.largest
    /\ largest_count = VoterInit.largest_count
    /\ song_id = VoterInit.song_id
    /\ result = None

CountStore ==
  /\ pc = "store"
  /\ fingerprints' = store_fingerprints(fingerprints, audio.values)
  /\ pc' = "count"
  /\ UNCHANGED <<songs, impl, caller, audio, check_signature, matches, pos,
                 voterVars, result>>

CountQuery ==
  /\ pc = "count"
  /\ result' = [kind |-> "count",
                count |-> get_song_hashes_count(fingerprints, audio.song_id)]
  /\ pc' = "done"
  /\ UNCHANGED <<dbVars, impl, caller, audio, check_signature, matches, pos,
                 voterVars>>

NextCount == CountStore \/ CountQuery

SpecCount == InitCount /\ [][NextCount]_vars

CountEnded == pc = "done" /\ result # None /\ result.kind = "count"

\* C22: after store_fingerprints has stored n distinct triples for a song
\* that had none, get_song_hashes_count of that song is n, whatever rows
\* the store holds for other songs.
C22_CountIsNumberStored ==
  CountEnded => result.count = Len(audio.values)

C22_Witness ==
  /\ CountEnded
  /\ result.count > 2 * BatchSize
  /\ Len(fingerprints) > result.count


\* C23: generate_hashes leaves the peak list of its caller as it was: the
\* same elements in the same order after the call as before it.
C23_PeakListUnchanged ==
  HasherEnded => result.peaks = audio.peaks

\* the fingerprints table with every stored offset held as rep
StoreAs(rep, store) ==
  [i \in 1..Len(store) |->
     [store[i] EXCEPT !.offset = Stored(rep, StoredValue(store[i].offset))]]

\* C24: in every matcher a stored offset held as bytes is read as a
\* little-endian unsigned integer before the subtraction and one held as
\* an integer is used as it is: on the table held in bytes and on the same
\* table held in integers the matcher yields the same observations, each
\* (song_id, stored offset - kept query offset).
C24_StoredOffsetDecoding ==
  MatcherEnded /\ MatchingRows(audio.channels[1], fingerprints) # {} =>
    LET hashes == audio.channels[1]
        bytesRun ==
          ReturnMatches(impl, hashes, StoreAs("bytes", fingerprints), BatchSize)
        intRun ==
          ReturnMatches(impl, hashes, StoreAs("int", fingerprints), BatchSize)
    IN  /\ bytesRun.kind = "ok"
        /\ intRun.kind = "ok"
        /\ bytesRun.matches = intRun.matches
        /\ result \in {bytesRun, intRun}
        /\ \A k \in 1..Len(bytesRun.matches) :
             \E r \in MatchingRows(hashes, fingerprints) :
               bytesRun.matches[k] = ExpectedObservation(hashes, fingerprints, r)


\* whether a stored song matches every tag the file has
TagsStored(tbl, tags) ==
  /\ \E f \in TagFields : tags[f] # None
  /\ \E s \in tbl :
       \A f \in TagFields : tags[f] # None => s.tags[f] = TagValue(f, tags[f])

\* the three reasons for which fingerprint_song skips a file
SkipReason(tbl, a, found) ==
  \/ StoredWithHash(tbl, a.file_hash) # {}
  \/ a.metadata["title"] # None /\ TagsStored(tbl, a.metadata)
  \/ found # <<>> /\ LargestBucket(found) >= DupThreshold

\* C25: a skipped ingestion changes nothing: no step of fingerprint_song
\* before its decision writes to the database, and when the file's hash is
\* stored, its metadata matches a stored song or the signature check flags
\* a duplicate, the call skips the file and leaves songs and fingerprints
\* as they were.
C25_SkipChangesNothing ==
  [][caller' = "fingerprint_song" =>
       /\ pc' = "align" => songs' = songs /\ fingerprints' = fingerprints
       /\ (pc' = "done"
             /\ (SkipReason(songs, audio', matches')
                   \/ result'.kind = "skipped"))
            => /\ result'.kind = "skipped"
               /\ songs' = songs
               /\ fingerprints' = fingerprints
               /\ songs = GateSongs
               /\ Len(fingerprints) = Len(GateRows) + Len(GateOther)]_vars

C25_Witness ==
  /\ caller = "fingerprint_song"
  /\ pc = "done"
  /\ result.kind = "skipped"
  /\ result.why = "metadata"
  /\ StoredWithHash(songs, audio.file_hash) = {}
  /\ songs = GateSongs


\* C26: every fingerprint_song call that is not skipped creates a new row
\* in songs, made from its file, and every fingerprint row it stores
\* carries the id of that row.
C26_StoredUnderOwnSong ==
  [][(caller' = "fingerprint_song" /\ pc' = "done"
        /\ result'.kind = "stored") =>
       \E s \in songs' \ songs :
         /\ s.filehash = audio'.file_hash
         /\ s.name = audio'.songname
         /\ s.id = result'.id
         /\ \A i \in (Len(fingerprints) + 1)..Len(fingerprints') :
              fingerprints'[i].song_fk = s.id]_vars


(***************************************************************************)
(* Ingestion runs on one database, among them runs in which the store      *)
(* fails after add_song has committed the song row: the rows that          *)
(* executemany had inserted by then are committed when the connection is   *)
(* closed (__exit__).                                                      *)
(***************************************************************************)
StoreFails ==
  \E a \in LibraryFiles :
    \E order \in SetOrders(a), k \in 0..(Cardinality(AllChannelHashes(a)) - 1) :
      /\ pc = "idle"
      /\ get_song_by_filehash(songs, a.file_hash) = None
      /\ a.metadata["title"] = None \/ get_song_by_tags(songs, a.metadata) = None
      /\ LET added == add_song(songs, a.songname, a.file_hash, a.metadata)
         IN  /\ added.kind = "ok"
             /\ Cardinality(added.songs) <= MaxSongs
             /\ songs' = added.songs
             /\ fingerprints' =
                  store_fingerprints(fingerprints,
                    [i \in 1..k |-> <<added.id, order[i][1], order[i][2]>>])
      /\ Len(fingerprints') <= MaxRows
      /\ impl' = "ingest"
      /\ caller' = "fingerprint_song"
      /\ audio' = a
      /\ check_signature' = "No"
      /\ matches' = <<>>
      /\ ResetVoter
      /\ result' = Raise("sqlite3.Error")
      /\ pc' = "failed"

NextIngest ==
  \/ LibraryFingerprintSong
  \/ FingerprintSongFinish
  \/ AlignLoop
  \/ StoreFails
  \/ Exit

SpecIngest == Init /\ [][NextIngest]_vars

\* the hashes of the file that are not stored under the song
Missing(s, a, store) ==
  {h \in AllChannelHashes(a) :
     \A i \in 1..Len(store) :
       \/ store[i].song_fk # s.id
       \/ store[i].hash # h[1]
       \/ DecodeOffset(store[i].offset) # h[2]}

\* C27: ingestion leaves no partial state: an ingestion run of a file whose
\* song row lacks fingerprints of the file (left by a run in which the
\* store failed) does not skip the file.
C27_NoPartialState ==
  [][(pc = "idle" /\ caller' = "fingerprint_song") =>
       \A s \in StoredWithHash(songs, audio'.file_hash) :
         Missing(s, audio', fingerprints) # {}
           => ~(pc' = "done" /\ result'.kind = "skipped"
                  /\ fingerprints' = fingerprints)]_vars


\* C28: one vote per stored row: at the end of a duplicate-detection or
\* recognition pass over a clip, the count of the winning cell is at most
\* the number of fingerprint rows stored for the winning song.
C28_OneVotePerStoredRow ==
  (/\ caller \in {"recognize", "fingerprint_song"}
   /\ pc \in {"align", "done"}
   /\ matches # <<>>
   /\ pos = Len(matches))
    => largest_count <= get_song_hashes_count(fingerprints, song_id)


(***************************************************************************)
(* A clip matched against its own stored hashes: generate_hashes of the    *)
(* peak list of every channel, the set of all tuples stored under one song *)
(* as fingerprint_song stores them, and return_matches of every channel's  *)
(* tuples against that store, by either recogniser.  A peak list is one    *)
(* that get_2d_peaks can give: distinct cells in row-major order.  The     *)
(* clip has one channel, or two with the second one the first delayed by   *)
(* one time bin.  Time bins reach MaxTime + 1 so that one token can occur  *)
(* at several offsets.                                                     *)
(***************************************************************************)
SelfCells == (1..MaxFreq) \X (0..(MaxTime + 1))

\* the cells of S in the order of np.nonzero: by row (frequency), then by
\* column (time)
NonzeroOrder(S) ==
  LET rank(c) ==
        1 + Cardinality({d \in S : \/ d[1] < c[1]
                                   \/ (d[1] = c[1] /\ d[2] < c[2])})
  IN  [k \in 1..Cardinality(S) |-> CHOOSE c \in S : rank(c) = k]

SelfPeakLists ==
  {NonzeroOrder(S) :
     S \in {T \in SUBSET SelfCells : Cardinality(T) <= MaxPeaks}}

\* the peaks of a channel that plays the same sound one time bin later
Delayed(peaks) == [i \in 1..Len(peaks) |-> <<peaks[i][1], peaks[i][2] + 1>>]

InitSelf ==
  \E im \in {"file", "mic"}, peaks \in SelfPeakLists,
     fan_value \in 1..MaxFan, stereo \in BOOLEAN :
    /\ songs = {}
    /\ fingerprints = <<>>
    /\ impl = im
    /\ caller = "call"
    /\ pc = "hash"
    /\ audio = [channels |-> IF stereo THEN <<peaks, Delayed(peaks)>>
                             ELSE <<peaks>>,
                fan_value |-> fan_value]
    /\ check_signature = "none"
    /\ matches = <<>>
    /\ pos = 0
    /\ diff_counter = VoterInit.diff_counter
    /\ largest = VoterInit.largest
    /\ largest_count = VoterInit.largest_count
    /\ song_id = VoterInit.song_id
    /\ result = None

\* hashes = list(generate_hashes(...)) of every channel;
\* store_fingerprints of the set of all of them
SelfStore ==
  /\ pc = "hash"
  /\ result' =
       [kind |-> "hashes",
        channels |->
          [c \in 1..Len(audio.channels) |->
             generate_hashes(audio.channels[c], audio.fan_value).hashes]]
  /\ \E order \in SetOrders(result') :
       fingerprints' =
         store_fingerprints(fingerprints,
           [i \in 1..Len(order) |-> <<1, order[i][1], order[i][2]>>])
  /\ pc' = "match"
  /\ UNCHANGED <<songs, impl, caller, audio, check_signature, matches, pos,
                 voterVars>>

\* matches.extend(find_matches(...)) of the same tuples, channel by channel
SelfMatch ==
  /\ pc = "match"
  /\ LET r == FindAllMatches(impl, result.channels, fingerprints, BatchSize)
     IN  /\ pc' = IF r.kind = "raise" THEN "failed" ELSE "done"
         /\ matches' = IF r.kind = "raise" THEN <<>> ELSE r.matches
  /\ UNCHANGED <<dbVars, impl, caller, audio, check_signature, pos,
                 voterVars, result>>

NextSelf == SelfStore \/ SelfMatch

SpecSelf == InitSelf /\ [][NextSelf]_vars

\* the offsets at which token h occurs in a hash sequence
OffsetsOf(hashes, h) ==
  {hashes[i][2] : i \in {k \in 1..Len(hashes) : hashes[k][1] = h}}

\* the tuples of every channel are in non-decreasing order of t1, and the
\* query offset the matcher's map keeps for a token is the largest offset at
\* which the token occurs in the channel
SortedAndLargestKept ==
  \A c \in 1..Len(result.channels) :
    LET hashes == result.channels[c]
    IN  /\ \A i \in 1..(Len(hashes) - 1) : hashes[i][2] <= hashes[i + 1][2]
        /\ \A i \in 1..Len(hashes) :
             Mapper(hashes).val[Upper(hashes[i][1])]
               = SetMax(OffsetsOf(hashes, hashes[i][1]))

\* C29 as claimed: the tuples of generate_hashes are in non-decreasing order
\* of t1, the query offset kept for a token is the largest offset at which
\* the token occurs in the channel, and every observation of a clip matched
\* against its own stored hashes has an offset delta of at most 0
C29_SelfMatchDeltas ==
  (pc \in {"match", "done", "failed"}) =>
    /\ SortedAndLargestKept
    /\ \A k \in 1..Len(matches) : matches[k][2] <= 0

\* C29 (amended): the tuples of generate_hashes are in non-decreasing order
\* of t1, the query offset kept for a token is the largest offset at which
\* the token occurs in the channel, and every observation of a clip of one
\* channel matched against its own stored hashes has an offset delta of at
\* most 0
C29_OneChannelDeltas ==
  (pc \in {"match", "done", "failed"}) =>
    /\ SortedAndLargestKept
    /\ Len(result.channels) = 1 =>
         \A k \in 1..Len(matches) : matches[k][2] <= 0

\* a clip of one channel with a token at two offsets, matched: a delta below
\* 0 and a delta of 0
C29_Witness ==
  /\ pc = "done"
  /\ impl = "file"
  /\ Len(result.channels) = 1
  /\ \E i \in 1..Len(result.channels[1]) :
       Cardinality(OffsetsOf(result.channels[1],
                             result.channels[1][i][1])) > 1
  /\ \E k \in 1..Len(matches) : matches[k][2] < 0
  /\ \E k \in 1..Len(matches) : matches[k][2] = 0

\* the cells of the eroded zero background: those at which the XOR of
\* get_2d_peaks inverts the local-maximum mask
ErodedBackground(arr_2d) ==
  binary_erosion([c \in DOMAIN arr_2d |-> arr_2d[c] = 0])

\* C30: for amp_min >= 0 the peak list of get_2d_peaks is the list of the
\* cells that equal the maximum of their neighbourhood and exceed amp_min,
\* which is the output without the XOR, and every cell at which the XOR
\* changes the mask has amplitude 0
C30_XorChangesNothing ==
  (PeaksEnded /\ audio.amp_min >= 0) =>
    LET arr == audio.arr_2d
        cells == MaxFilterCells[Shape(arr)]
        eroded == ErodedBackground(arr) @@ <<>>
    IN  /\ result.peaks =
             SelectSeq(RowMajor(Shape(arr)),
               LAMBDA c : /\ \A x \in cells[c] : arr[x] <= arr[c]
                          /\ arr[c] > audio.amp_min)
        /\ \A c \in DOMAIN arr : eroded[c] => arr[c] = 0

\* a grid with a peak and with local maxima in the eroded background, which
\* the XOR removes
C30_Witness ==
  /\ PeaksEnded
  /\ audio.amp_min = 0
  /\ result.peaks # <<>>
  /\ LET eroded == ErodedBackground(audio.arr_2d) @@ <<>>
         filtered == maximum_filter(audio.arr_2d) @@ <<>>
     IN  \E c \in DOMAIN audio.arr_2d :
           eroded[c] /\ filtered[c] = audio.arr_2d[c]

====
